---------------------------- MODULE Spec2Model ----------------------------
(***************************************************************************)
(* A model of tools/generate_social_images.py: the text shaper, the line   *)
(* wrapper, the colour parser, the image fitter, the product-page parser,  *)
(* the layout composer and the batch driver.                               *)
(*                                                                         *)
(* Text is a sequence of Unicode codepoints.  A call of one of the pure    *)
(* functions is the pair (call, ret); the batch driver is a state machine  *)
(* over the remaining variables.                                           *)
(***************************************************************************)
EXTENDS Integers, Sequences, FiniteSets, TLC

VARIABLES
    call,        \* the function being called and its arguments
    ret,         \* its result, or Pending
    args,        \* main: the parsed command line
    env,         \* main: the repository (fonts, product pages)
    pc,          \* main: where the driver is
    sizes,       \* main: the selected (kind, size) list
    html_files,  \* main: the product pages to process, in order
    idx,         \* main: index of the current page in html_files
    kidx,        \* main: index of the current kind in sizes
    product,     \* main: the ProductInfo of the current page
    generated,   \* main: the counter `generated`
    errors,      \* main: the counter `errors`
    log,         \* main: the messages logged so far
    fs,          \* main: what the run has created on the filesystem
    status,      \* main: the process exit status, or Running
    reports      \* the final state of earlier invocations on the same repository

fnVars == <<call, ret>>
mainVars == <<args, env, pc, sizes, html_files, idx, kidx, product, generated,
              errors, log, fs, status, reports>>
vars == <<call, ret, args, env, pc, sizes, html_files, idx, kidx, product,
          generated, errors, log, fs, status, reports>>

---------------------------------------------------------------------------
(* Bounds of the model *)

MaxTextLen == 5
MaxWidth == 4
MaxLines == 3
MaxDim == 7       \* the largest image or box side
MaxDiskFailures == 1  \* how many saves of one run may fail
MantBits == 8     \* the significand width of the model's floating point

---------------------------------------------------------------------------
(* Codepoints and Python's str helpers *)

\* The codepoints the model's texts are made of
CP ==
    [space |-> 32, hash |-> 35, plus |-> 43, minus |-> 45, lt |-> 60, gt |-> 62,
     a |-> 97, hebrew_alef |-> 1488, beh |-> 1576,
     beh_isolated |-> 65167, beh_final |-> 65168, beh_initial |-> 65169,
     beh_medial |-> 65170]

SPACE == CP.space
HASH == CP.hash
LATIN_A == CP.a
HEBREW_ALEF == CP.hebrew_alef
ARABIC_BEH == CP.beh

\* str.isspace(): the characters str.strip() and str.split() treat as whitespace
IsSpace(c) == c \in {9, 10, 11, 12, 13, 28, 29, 30, 31, 32, 133, 160}

\* The sequence a function on 1..n is, its elements evaluated once
AsSeq(f) == <<>> \o f

SetMin(S) == CHOOSE x \in S : \A y \in S : x <= y
SetMax(S) == CHOOSE x \in S : \A y \in S : x >= y

\* The positions of the characters of s that are not whitespace
Inked(s) == {i \in 1..Len(s) : ~IsSpace(s[i])}

\* str.lstrip()
LStrip(s) == IF Inked(s) = {} THEN <<>> ELSE SubSeq(s, SetMin(Inked(s)), Len(s))

\* str.rstrip()
RStrip(s) == IF Inked(s) = {} THEN <<>> ELSE SubSeq(s, 1, SetMax(Inked(s)))

\* str.strip()
Strip(s) == RStrip(LStrip(s))

\* Where the words of s start: a non-whitespace character that opens s or
\* follows whitespace
WordStarts(s) == {i \in Inked(s) : i = 1 \/ IsSpace(s[i - 1])}

\* Where the word starting at i ends
WordEnd(s, i) == SetMin({j \in i..Len(s) : j = Len(s) \/ IsSpace(s[j + 1])})

\* str.split(): the maximal runs of non-whitespace characters, in order
Split(s) ==
    LET starts == WordStarts(s)
        kth(k) == CHOOSE i \in starts : Cardinality({j \in starts : j < i}) = k - 1
    IN  AsSeq([k \in 1..Cardinality(starts) |-> SubSeq(s, kth(k), WordEnd(s, kth(k)))])

\* " ".join(words)
RECURSIVE Join(_)
Join(words) ==
    IF words = <<>> THEN <<>>
    ELSE IF Len(words) = 1 THEN words[1]
    ELSE words[1] \o <<SPACE>> \o Join(Tail(words))


Max(a, b) == IF a >= b THEN a ELSE b
Min(a, b) == IF a <= b THEN a ELSE b

---------------------------------------------------------------------------
(* shape_text: lines 60-70 *)

\* ARABIC_RE = re.compile("[U+0600-U+06FF]")
ARABIC_RE(c) == 1536 <= c /\ c <= 1791

\* ARABIC_RE.search(text)
HasArabic(s) == \E i \in 1..Len(s) : ARABIC_RE(s[i])

\* arabic_reshaper: the letters that join, and their presentation forms
\* (isolated, initial, medial, final) of beh, U+FE8F..U+FE92
JoinsBothSides(c) == c = ARABIC_BEH

BehForm(joinsPrev, joinsNext) ==
    IF joinsPrev /\ joinsNext THEN CP.beh_medial
    ELSE IF joinsPrev THEN CP.beh_final
    ELSE IF joinsNext THEN CP.beh_initial
    ELSE CP.beh_isolated

\* arabic_reshaper.reshape(text): every joining letter takes the form its
\* neighbours call for; every other character is kept
reshape(s) ==
    AsSeq([i \in 1..Len(s) |->
            IF JoinsBothSides(s[i])
            THEN BehForm(i > 1 /\ JoinsBothSides(s[i - 1]),
                         i < Len(s) /\ JoinsBothSides(s[i + 1]))
            ELSE s[i]])

\* The bidirectional class of a character: "L", "R" (R and AL) or "N" (neutral)
BidiClass(c) ==
    IF IsSpace(c) THEN "N"
    ELSE IF (1424 <= c /\ c <= 2303) \/ (64285 <= c /\ c <= 65276) THEN "R"
    ELSE "L"

\* The paragraph direction: that of the first strong character, else left-to-right
RECURSIVE BaseDir(_)
BaseDir(s) ==
    IF s = <<>> THEN "L"
    ELSE IF BidiClass(Head(s)) # "N" THEN BidiClass(Head(s))
    ELSE BaseDir(Tail(s))

\* The nearest strong class before (step -1) or after (step 1) position i,
\* the paragraph direction at either end of the text
RECURSIVE StrongNear(_, _, _, _)
StrongNear(s, i, step, base) ==
    IF i < 1 \/ i > Len(s) THEN base
    ELSE IF BidiClass(s[i]) # "N" THEN BidiClass(s[i])
    ELSE StrongNear(s, i + step, step, base)

\* The resolved direction of each character: a neutral takes the direction both
\* its strong neighbours share, else the paragraph direction
ResolvedDir(s, i, base) ==
    IF BidiClass(s[i]) # "N" THEN BidiClass(s[i])
    ELSE IF StrongNear(s, i - 1, -1, base) = StrongNear(s, i + 1, 1, base)
         THEN StrongNear(s, i - 1, -1, base)
         ELSE base

\* The embedding level of each character
BidiLevel(s, i, base) ==
    IF base = "L" THEN (IF ResolvedDir(s, i, base) = "R" THEN 1 ELSE 0)
    ELSE (IF ResolvedDir(s, i, base) = "L" THEN 2 ELSE 1)

\* Reverse every maximal run of characters whose level is at least lvl;
\* ps is a sequence of <<character, level>> pairs
ReverseRuns(ps, lvl) ==
    LET low == {i \in 1..Len(ps) : ps[i][2] < lvl}
        first(i) == SetMax({0} \cup {j \in low : j < i}) + 1
        last(i) == SetMin({Len(ps) + 1} \cup {j \in low : j > i}) - 1
    IN  AsSeq([i \in 1..Len(ps) |->
                IF i \in low THEN ps[i] ELSE ps[first(i) + last(i) - i]])

\* bidi.algorithm.get_display(text): the characters in visual order
get_display(s) ==
    LET base == BaseDir(s)
        ps == AsSeq([i \in 1..Len(s) |-> <<s[i], BidiLevel(s, i, base)>>])
        vis == ReverseRuns(ReverseRuns(ps, 2), 1)
    IN  AsSeq([i \in 1..Len(vis) |-> vis[i][1]])

shape_text_NoFastPath(text) ==
    LET t == Strip(text)
    IN  IF t = <<>> THEN <<>> ELSE get_display(reshape(t))

shape_text(text) ==
    LET t == Strip(text)
    IN  IF t = <<>> THEN <<>>
        ELSE IF ~HasArabic(t) THEN t
        ELSE get_display(reshape(t))

---------------------------------------------------------------------------
(* text_width and wrap_text: lines 113-149 *)

\* The font: the advance of a glyph, in ems.  A joined form of beh is narrower
\* than the isolated form and than the unshaped letter.
GlyphUnits(c) ==
    IF c \in {CP.beh_isolated, ARABIC_BEH} THEN 2 ELSE 1

\* The advances of the glyphs of s, added up
SumUnits(s) ==
    LET n(u) == Cardinality({i \in 1..Len(s) : GlyphUnits(s[i]) = u})
    IN  n(1) + 2 * n(2)

\* draw.textbbox((0, 0), text, font): (left, top, right, bottom)
textbbox(text, font) == <<0, 0, SumUnits(text) * font.size, font.size>>

text_width(text, font) ==
    LET bbox == textbbox(text, font)
    IN  Max(0, bbox[3] - bbox[1])

RECURSIVE WrapLoop_LateCap(_, _, _, _, _, _, _)
WrapLoop_LateCap(words, i, lines, current, font, max_width, max_lines) ==
    IF i > Len(words)
    THEN (IF current # <<>> /\ Len(lines) < max_lines
          THEN Append(lines, Join(current)) ELSE lines)
    ELSE LET word == words[i]
             candidate == IF current # <<>> THEN Join(Append(current, word)) ELSE word
         IN  IF text_width(shape_text(candidate), font) <= max_width
             THEN WrapLoop_LateCap(words, i + 1, lines, Append(current, word),
                                   font, max_width, max_lines)
             ELSE LET lines2 == IF current # <<>> THEN Append(lines, Join(current))
                                ELSE Append(lines, word)
                      current2 == IF current # <<>> THEN <<word>> ELSE current
                  IN  IF Len(lines2) > max_lines THEN lines2
                      ELSE WrapLoop_LateCap(words, i + 1, lines2, current2,
                                            font, max_width, max_lines)

RECURSIVE WrapLoop_DropsRejected(_, _, _, _, _, _, _)
WrapLoop_DropsRejected(words, i, lines, current, font, max_width, max_lines) ==
    IF i > Len(words)
    THEN (IF current # <<>> /\ Len(lines) < max_lines
          THEN Append(lines, Join(current)) ELSE lines)
    ELSE LET word == words[i]
             candidate == IF current # <<>> THEN Join(Append(current, word)) ELSE word
         IN  IF text_width(shape_text(candidate), font) <= max_width
             THEN WrapLoop_DropsRejected(words, i + 1, lines, Append(current, word),
                                         font, max_width, max_lines)
             ELSE LET lines2 == IF current # <<>> THEN Append(lines, Join(current))
                                ELSE Append(lines, word)
                  IN  IF Len(lines2) >= max_lines THEN lines2
                      ELSE WrapLoop_DropsRejected(words, i + 1, lines2, <<>>,
                                                  font, max_width, max_lines)

RECURSIVE WrapLoop_NeverJoins(_, _, _, _, _, _, _)
WrapLoop_NeverJoins(words, i, lines, current, font, max_width, max_lines) ==
    IF i > Len(words)
    THEN (IF current # <<>> /\ Len(lines) < max_lines
          THEN Append(lines, Join(current)) ELSE lines)
    ELSE LET word == words[i]
             candidate == IF current # <<>> THEN Join(Append(current, word)) ELSE word
         IN  IF current = <<>> /\ text_width(shape_text(candidate), font) <= max_width
             THEN WrapLoop_NeverJoins(words, i + 1, lines, Append(current, word),
                                      font, max_width, max_lines)
             ELSE LET lines2 == IF current # <<>> THEN Append(lines, Join(current))
                                ELSE Append(lines, word)
                      current2 == IF current # <<>> THEN <<word>> ELSE current
                  IN  IF Len(lines2) >= max_lines THEN lines2
                      ELSE WrapLoop_NeverJoins(words, i + 1, lines2, current2,
                                               font, max_width, max_lines)

\* The loop of wrap_text (lines 132-149) from word i on
RECURSIVE WrapLoop(_, _, _, _, _, _, _)
WrapLoop(words, i, lines, current, font, max_width, max_lines) ==
    IF i > Len(words)
    THEN (IF current # <<>> /\ Len(lines) < max_lines
          THEN Append(lines, Join(current)) ELSE lines)
    ELSE LET word == words[i]
             candidate == IF current # <<>> THEN Join(Append(current, word)) ELSE word
         IN  IF text_width(shape_text(candidate), font) <= max_width
             THEN WrapLoop(words, i + 1, lines, Append(current, word),
                           font, max_width, max_lines)
             ELSE LET lines2 == IF current # <<>> THEN Append(lines, Join(current))
                                ELSE Append(lines, word)
                      current2 == IF current # <<>> THEN <<word>> ELSE current
                  IN  IF Len(lines2) >= max_lines THEN lines2
                      ELSE WrapLoop(words, i + 1, lines2, current2,
                                    font, max_width, max_lines)

wrap_text(text, font, max_width, max_lines) ==
    LET words == Split(Strip(text))
    IN  IF words = <<>> THEN <<>>
        ELSE WrapLoop(words, 1, <<>>, <<>>, font, max_width, max_lines)

---------------------------------------------------------------------------
(* hex_to_rgb: lines 73-77 *)

\* str.lstrip("#")
RECURSIVE LStripHash(_)
LStripHash(s) ==
    IF s # <<>> /\ Head(s) = HASH THEN LStripHash(Tail(s)) ELSE s

\* The value of a hexadecimal digit, -1 for any other character
HexDigit(c) ==
    IF 48 <= c /\ c <= 57 THEN c - 48
    ELSE IF 65 <= c /\ c <= 70 THEN c - 55
    ELSE IF 97 <= c /\ c <= 102 THEN c - 87
    ELSE -1

RECURSIVE HexValue(_, _)
HexValue(s, acc) ==
    IF s = <<>> THEN acc ELSE HexValue(Tail(s), 16 * acc + HexDigit(Head(s)))

\* int(s, 16) of a slice of at most two characters: surrounding whitespace and
\* one sign are accepted, then only hexadecimal digits; ok is FALSE where int
\* raises ValueError
int16(s) ==
    LET t == Strip(s)
        signed == t # <<>> /\ Head(t) \in {CP.plus, CP.minus}
        digits == IF signed THEN Tail(t) ELSE t
        valid == digits # <<>> /\ \A i \in 1..Len(digits) : HexDigit(digits[i]) >= 0
    IN  IF ~valid THEN [ok |-> FALSE, val |-> 0]
        ELSE [ok |-> TRUE,
              val |-> IF signed /\ Head(t) = CP.minus THEN 0 - HexValue(digits, 0)
                      ELSE HexValue(digits, 0)]

\* len(value) != 6
HexLen == 6

hex_to_rgb_KeepsHash(hex_color) ==
    LET value == Strip(hex_color)
        r == int16(SubSeq(value, 1, 2))
        g == int16(SubSeq(value, 3, 4))
        b == int16(SubSeq(value, 5, 6))
    IN  IF Len(value) # HexLen THEN [st |-> "raised", exc |-> "ValueError", about |-> "Expected #RRGGBB"]
        ELSE IF ~(r.ok /\ g.ok /\ b.ok) THEN [st |-> "raised", exc |-> "ValueError", about |-> "int"]
        ELSE [st |-> "returned", val |-> <<r.val, g.val, b.val>>]

hex_to_rgb(hex_color) ==
    LET value == LStripHash(Strip(hex_color))
        r == int16(SubSeq(value, 1, 2))
        g == int16(SubSeq(value, 3, 4))
        b == int16(SubSeq(value, 5, 6))
    IN  IF Len(value) # HexLen THEN [st |-> "raised", exc |-> "ValueError", about |-> "Expected #RRGGBB"]
        ELSE IF ~(r.ok /\ g.ok /\ b.ok) THEN [st |-> "raised", exc |-> "ValueError", about |-> "int"]
        ELSE [st |-> "returned", val |-> <<r.val, g.val, b.val>>]

---------------------------------------------------------------------------
(* contain: lines 236-242 *)

RECURSIVE Pow2(_)
Pow2(n) == IF n = 0 THEN 1 ELSE 2 * Pow2(n - 1)

\* A float is <<m, sh>>, the number m / 2^sh, with m below 2^MantBits.

\* n / d rounded to the nearest integer, ties to even
RoundHalfEven(n, d) ==
    LET q == n \div d
        r == n % d
    IN  IF 2 * r < d THEN q
        ELSE IF 2 * r > d THEN q + 1
        ELSE IF q % 2 = 0 THEN q ELSE q + 1

\* The least sh >= 0 with a * 2^sh / b >= 2^(MantBits - 1)
RECURSIVE Normalise(_, _, _)
Normalise(a, b, sh) ==
    IF a * Pow2(sh) >= b * Pow2(MantBits - 1) THEN sh ELSE Normalise(a, b, sh + 1)

\* The float nearest to a / b (a >= 0, b > 0, a / b below 2^MantBits)
RoundToFloat(a, b) ==
    IF a = 0 THEN <<0, 0>>
    ELSE LET sh == Normalise(a, b, 0)
         IN  <<RoundHalfEven(a * Pow2(sh), b), sh>>

\* int / int: true division, correctly rounded
TrueDiv(a, b) == RoundToFloat(a, b)

\* int * float: the product, correctly rounded
MulIntFloat(n, f) == RoundToFloat(n * f[1], Pow2(f[2]))

FloatLE(f, g) == f[1] * Pow2(g[2]) <= g[1] * Pow2(f[2])

\* min(f, g)
FloatMin(f, g) == IF FloatLE(f, g) THEN f ELSE g

\* int(f): truncation
FloatToInt(f) == f[1] \div Pow2(f[2])

contain_NoMinimum(size, max_size) ==
    LET max_w == max_size[1]
        max_h == max_size[2]
        w == size[1]
        h == size[2]
        scale == FloatMin(TrueDiv(max_w, w), TrueDiv(max_h, h))
    IN  <<FloatToInt(MulIntFloat(w, scale)), FloatToInt(MulIntFloat(h, scale))>>

\* contain(image, max_size): the size of the image it returns
contain(size, max_size) ==
    LET max_w == max_size[1]
        max_h == max_size[2]
        w == size[1]
        h == size[2]
        scale == FloatMin(TrueDiv(max_w, w), TrueDiv(max_h, h))
        new_w == Max(1, FloatToInt(MulIntFloat(w, scale)))
        new_h == Max(1, FloatToInt(MulIntFloat(h, scale)))
    IN  <<new_w, new_h>>

---------------------------------------------------------------------------
(* parse_product_page: lines 245-283 *)

\* An HTML page is what the selectors of parse_product_page find in it.  An
\* element or attribute that may be absent is a sequence of length 0 (None) or 1.
\*   h1        .product-page-info h1      [data_en, nodes]  (nodes: its text nodes)
\*   desc      .product-page-desc         [data_ar]
\*   spec      .product-page-specs li span [data_ar]
\*   price_el  .product-page-price .price [nodes]
\*   img       .product-page-img img      [src]
\*   canonical link[rel="canonical"]      [href]
\* and `files` is the set of paths that exist next to the page.

IsNone(x) == x = <<>>

\* x if x else dflt, for an optional string
OrElse(x, dflt) == IF IsNone(x) \/ x[1] = <<>> THEN dflt ELSE x[1]

\* The non-empty stripped members of a list of text nodes
RECURSIVE StrippedNodes(_)
StrippedNodes(nodes) ==
    IF nodes = <<>> THEN <<>>
    ELSE IF Strip(Head(nodes)) = <<>> THEN StrippedNodes(Tail(nodes))
    ELSE <<Strip(Head(nodes))>> \o StrippedNodes(Tail(nodes))

\* element.get_text(" ", strip=True)
get_text(nodes) == Join(StrippedNodes(nodes))

\* The text nodes of a markup string: what lies outside its <...> tags
RECURSIVE TextNodes(_, _, _)
TextNodes(s, cur, inTag) ==
    IF s = <<>> THEN <<cur>>
    ELSE IF inTag
         THEN TextNodes(Tail(s), cur, Head(s) # CP.gt)
         ELSE IF Head(s) = CP.lt /\ \E i \in 1..Len(s) : s[i] = CP.gt
              THEN <<cur>> \o TextNodes(Tail(s), <<>>, TRUE)
              ELSE TextNodes(Tail(s), Append(cur, Head(s)), FALSE)

\* BeautifulSoup(markup, "html.parser").get_text(" ", strip=True)
PlainText(markup) == get_text(TextNodes(markup, <<>>, FALSE))

parse_product_page_ImageFirst(html) ==
    LET h1 == html.h1
        desc == html.desc
        spec == html.spec
        price_el == html.price_el
        img == html.img
        canonical == html.canonical
        name_en == PlainText(Strip(IF OrElse(h1[1].data_en, <<>>) # <<>>
                                   THEN h1[1].data_en[1] ELSE get_text(h1[1].nodes)))
        desc_ar == OrElse(IF ~IsNone(desc) THEN desc[1].data_ar ELSE <<>>, <<>>)
        spec_ar == OrElse(IF ~IsNone(spec) THEN spec[1].data_ar ELSE <<>>, <<>>)
        price == Strip(IF ~IsNone(price_el) THEN get_text(price_el[1].nodes) ELSE <<>>)
        page_url == IF ~IsNone(canonical) THEN Strip(OrElse(canonical[1].href, <<>>)) ELSE <<>>
    IN  IF IsNone(img) \/ IsNone(img[1].src) \/ img[1].src[1] = ""
        THEN [st |-> "raised", exc |-> "ValueError", about |-> "Missing product image"]
        ELSE IF img[1].src[1] \notin html.files
        THEN [st |-> "raised", exc |-> "FileNotFoundError", about |-> "Product image not found"]
        ELSE IF IsNone(h1)
        THEN [st |-> "raised", exc |-> "ValueError", about |-> "Missing product title (<h1>)"]
        ELSE [st |-> "returned",
              val |-> [slug |-> html.stem, name_en |-> name_en, desc_ar |-> Strip(desc_ar),
                       spec_ar |-> Strip(spec_ar), price |-> price,
                       image_path |-> img[1].src[1], page_url |-> page_url]]

parse_product_page(html) ==
    LET h1 == html.h1
        desc == html.desc
        spec == html.spec
        price_el == html.price_el
        img == html.img
        canonical == html.canonical
        name_en == PlainText(Strip(IF OrElse(h1[1].data_en, <<>>) # <<>>
                                   THEN h1[1].data_en[1] ELSE get_text(h1[1].nodes)))
        desc_ar == OrElse(IF ~IsNone(desc) THEN desc[1].data_ar ELSE <<>>, <<>>)
        spec_ar == OrElse(IF ~IsNone(spec) THEN spec[1].data_ar ELSE <<>>, <<>>)
        price == Strip(IF ~IsNone(price_el) THEN get_text(price_el[1].nodes) ELSE <<>>)
        page_url == IF ~IsNone(canonical) THEN Strip(OrElse(canonical[1].href, <<>>)) ELSE <<>>
    IN  IF IsNone(h1)
        THEN [st |-> "raised", exc |-> "ValueError", about |-> "Missing product title (<h1>)"]
        ELSE IF IsNone(img) \/ IsNone(img[1].src) \/ img[1].src[1] = ""
        THEN [st |-> "raised", exc |-> "ValueError", about |-> "Missing product image"]
        ELSE IF img[1].src[1] \notin html.files
        THEN [st |-> "raised", exc |-> "FileNotFoundError", about |-> "Product image not found"]
        ELSE [st |-> "returned",
              val |-> [slug |-> html.stem, name_en |-> name_en, desc_ar |-> Strip(desc_ar),
                       spec_ar |-> Strip(spec_ar), price |-> price,
                       image_path |-> img[1].src[1], page_url |-> page_url]]

---------------------------------------------------------------------------
(* render_product_image: lines 286-397 *)

\* SIZES, lines 54-58
SIZES ==
    <<[kind |-> "square", size |-> <<1080, 1080>>],
      [kind |-> "story", size |-> <<1080, 1920>>],
      [kind |-> "og", size |-> <<1200, 630>>]>>

\* ImageFont.truetype(path, size)
truetype(path, size) == [size |-> size, path |-> path]

\* "APEX", "LABS", "apex-labs.tech" and the disclaimer of lines 352 and 394
APEX == <<65, 80, 69, 88>>
LABS == <<76, 65, 66, 83>>
SITE_DOMAIN == <<97, 112, 101, 120, 45, 108, 97, 98, 115, 46, 116, 101, 99, 104>>
DISCLAIMER == <<1604, 1604, 1571, 1576, 1581, 1575, 1579, 32, 1601, 1602, 1591>>

\* One drawing operation on the canvas
DrawOp(name, x, y, what) == [op |-> name, at |-> <<x, y>>, what |-> what]

\* draw_text_left, lines 165-173
draw_text_left(name, text, font, x_left, y) ==
    DrawOp(name, x_left, y, shape_text(text))

\* draw_text_right, lines 152-162
draw_text_right(name, text, font, x_right, y) ==
    DrawOp(name, x_right - text_width(shape_text(text), font), y, shape_text(text))

\* for line in lines: draw_text_right(...); y += step
DrawLines(name, lines, font, x_right, y, step) ==
    AsSeq([i \in 1..Len(lines) |->
            draw_text_right(name, lines[i], font, x_right, y + (i - 1) * step)])

\* add_background, lines 176-203: the fill and the composited overlay
add_background(w, h) == <<DrawOp("background", 0, 0, <<w, h>>)>>

\* card_with_shadow, lines 206-233: the shadow, then the card
card_with_shadow(x, y, w, h, radius) ==
    <<DrawOp("shadow", x, y + 18, <<w, h>>), DrawOp("card", x, y, <<w, h>>)>>

\* The brand mark, lines 311-318
BrandOps(pad) ==
    LET brand_font == truetype("bold", 34)
        apex_w == text_width(APEX, brand_font)
    IN  <<draw_text_left("brand", APEX, brand_font, pad, pad - 10),
          draw_text_left("brand", LABS, brand_font, pad + apex_w + 10, pad - 10)>>

\* Image.open(...), contain(...) and alpha_composite of the photo centred in the card
PhotoOps(photo, card_x, card_y, card_w, card_h, margin) ==
    LET img == contain(photo.size, <<card_w - margin, card_h - margin>>)
    IN  <<DrawOp("photo", card_x + (card_w - img[1]) \div 2,
                 card_y + (card_h - img[2]) \div 2, img)>>

\* The two footer strings
FooterOps(tiny_font, pad, w, y) ==
    <<draw_text_left("footer", SITE_DOMAIN, tiny_font, pad, y),
      draw_text_right("footer", DISCLAIMER, tiny_font, w - pad, y)>>

\* out_path.parent.mkdir(...) and base.convert("RGB").save(out_path, ...)
SaveOps(w, h) == <<DrawOp("save", 0, 0, <<w, h>>)>>

\* What render_product_image gives: the operations issued, and whether it
\* returned (the file saved) or raised on the way
Rendered(ops, opened) ==
    IF opened THEN [st |-> "returned", ops |-> ops]
    ELSE [st |-> "raised", exc |-> "UnidentifiedImageError", ops |-> ops]

\* The story layout, lines 320-352
StoryLayout(prod, w, h, photo) ==
    LET title_font == truetype("bold", 86)
        price_font == truetype("bold", 84)
        small_font == truetype("regular", 36)
        tiny_font == truetype("regular", 28)
        pad == 70
        spec_lines == wrap_text(prod.spec_ar, small_font, w - pad * 2, 2)
        y == 290 + 48 * Len(spec_lines)
        card_x == 140
        card_y == 720
        card_w == w - card_x * 2
        card_h == h - card_y - 240
        before == add_background(w, h) \o BrandOps(60)
                  \o <<draw_text_left("title", prod.name_en, title_font, pad, 170)>>
                  \o DrawLines("spec", spec_lines, small_font, w - pad, 290, 48)
                  \o (IF prod.price # <<>>
                      THEN <<draw_text_left("price", prod.price, price_font, pad, y + 10)>>
                      ELSE <<>>)
                  \o card_with_shadow(card_x, card_y, card_w, card_h, 60)
    IN  IF ~photo.ok THEN Rendered(before, FALSE)
        ELSE Rendered(before \o PhotoOps(photo, card_x, card_y, card_w, card_h, 140)
                             \o FooterOps(tiny_font, pad, w, h - 120)
                             \o SaveOps(w, h), TRUE)

SideLayout_TextFirst(prod, w, h, kind, photo) ==
    LET square == kind = "square"
        title_font == truetype("bold", IF square THEN 84 ELSE 64)
        price_font == truetype("bold", IF square THEN 76 ELSE 58)
        small_font == truetype("regular", IF square THEN 34 ELSE 28)
        tiny_font == truetype("regular", IF square THEN 26 ELSE 22)
        pad == IF square THEN 70 ELSE 60
        card_x == IF square THEN 590 ELSE 720
        card_y == IF square THEN 220 ELSE 90
        card_w == 420
        card_h == IF square THEN 640 ELSE 450
        text_x == pad
        text_w == IF square THEN 500 ELSE 610
        y0 == IF square THEN 340 ELSE 255
        desc_lines == IF prod.desc_ar # <<>>
                      THEN wrap_text(prod.desc_ar, tiny_font, text_w, 3) ELSE <<>>
        y1 == y0 + 40 * Len(desc_lines)
        spec_lines == IF prod.spec_ar # <<>>
                      THEN wrap_text(prod.spec_ar, small_font, text_w, 2) ELSE <<>>
        y2 == IF prod.spec_ar # <<>> THEN y1 + 10 + 46 * Len(spec_lines) ELSE y1
        before == add_background(w, h) \o BrandOps(pad)
                  \o <<draw_text_left("title", prod.name_en, title_font, text_x,
                                      IF square THEN 230 ELSE 160)>>
                  \o card_with_shadow(card_x, card_y, card_w, card_h, 50)
    IN  IF ~photo.ok THEN Rendered(before, FALSE)
        ELSE Rendered(
                before
                \o PhotoOps(photo, card_x, card_y, card_w, card_h, 110)
                \o DrawLines("desc", desc_lines, tiny_font, text_x + text_w, y0, 40)
                \o DrawLines("spec", spec_lines, small_font, text_x + text_w, y1 + 10, 46)
                \o (IF prod.price # <<>>
                    THEN <<draw_text_left("price", prod.price, price_font, text_x, y2 + 18)>>
                    ELSE <<>>)
                \o FooterOps(tiny_font, pad, w, h - 90)
                \o SaveOps(w, h), TRUE)

\* The square and og layouts, lines 353-394
SideLayout(prod, w, h, kind, photo) ==
    LET square == kind = "square"
        title_font == truetype("bold", IF square THEN 84 ELSE 64)
        price_font == truetype("bold", IF square THEN 76 ELSE 58)
        small_font == truetype("regular", IF square THEN 34 ELSE 28)
        tiny_font == truetype("regular", IF square THEN 26 ELSE 22)
        pad == IF square THEN 70 ELSE 60
        card_x == IF square THEN 590 ELSE 720
        card_y == IF square THEN 220 ELSE 90
        card_w == 420
        card_h == IF square THEN 640 ELSE 450
        text_x == pad
        text_w == IF square THEN 500 ELSE 610
        y0 == IF square THEN 340 ELSE 255
        desc_lines == IF prod.desc_ar # <<>>
                      THEN wrap_text(prod.desc_ar, tiny_font, text_w, 3) ELSE <<>>
        y1 == y0 + 40 * Len(desc_lines)
        spec_lines == IF prod.spec_ar # <<>>
                      THEN wrap_text(prod.spec_ar, small_font, text_w, 2) ELSE <<>>
        y2 == IF prod.spec_ar # <<>> THEN y1 + 10 + 46 * Len(spec_lines) ELSE y1
        before == add_background(w, h) \o BrandOps(pad)
                  \o card_with_shadow(card_x, card_y, card_w, card_h, 50)
    IN  IF ~photo.ok THEN Rendered(before, FALSE)
        ELSE Rendered(
                before
                \o PhotoOps(photo, card_x, card_y, card_w, card_h, 110)
                \o <<draw_text_left("title", prod.name_en, title_font, text_x,
                                    IF square THEN 230 ELSE 160)>>
                \o DrawLines("desc", desc_lines, tiny_font, text_x + text_w, y0, 40)
                \o DrawLines("spec", spec_lines, small_font, text_x + text_w, y1 + 10, 46)
                \o (IF prod.price # <<>>
                    THEN <<draw_text_left("price", prod.price, price_font, text_x, y2 + 18)>>
                    ELSE <<>>)
                \o FooterOps(tiny_font, pad, w, h - 90)
                \o SaveOps(w, h), TRUE)

\* render_product_image(product, out_path, size, kind, fonts); photo is the file
\* at product.image_path: whether Image.open reads it, and its size
render_product_image(prod, size, kind, photo) ==
    IF kind = "story" THEN StoryLayout(prod, size[1], size[2], photo)
    ELSE SideLayout(prod, size[1], size[2], kind, photo)

---------------------------------------------------------------------------
(* parse_site_tagline and render_site_image: lines 400-450 *)

\* The default tagline of lines 403 and 407
DEFAULT_TAGLINE ==
    <<1605, 1603, 1605, 1604, 1575, 1578, 32, 1585, 1610, 1575, 1590, 1610, 1577, 32,
      1608, 1605, 1585, 1603, 1576, 1575, 1578, 32, 1576, 1581, 1579, 1610, 1577>>

\* parse_site_tagline(repo_root); index is index.html, absent or holding the
\* content of its description meta tag, itself absent or a string
parse_site_tagline(index) ==
    IF IsNone(index) THEN DEFAULT_TAGLINE
    ELSE LET content == OrElse(index[1].content, <<>>)
         IN  IF Strip(content) # <<>> THEN Strip(content) ELSE DEFAULT_TAGLINE

\* render_site_image(out_path, size, kind, fonts, tagline_ar); disk_ok is whether
\* mkdir and save succeed
render_site_image(size, kind, tagline_ar, disk_ok) ==
    LET w == size[1]
        h == size[2]
        square == kind = "square"
        title_font == truetype("bold", IF square THEN 110 ELSE 86)
        small_font == truetype("regular", IF square THEN 40 ELSE 30)
        tiny_font == truetype("regular", IF square THEN 28 ELSE 22)
        pad == IF square THEN 80 ELSE 70
        top == (h * 28) \div 100
        apex_w == text_width(APEX, title_font)
        lines == wrap_text(tagline_ar, small_font, w - pad * 2, 3)
        drawn == add_background(w, h)
                 \o <<draw_text_left("brand", APEX, title_font, pad, top),
                      draw_text_left("brand", LABS, title_font, pad + apex_w + 20, top)>>
                 \o DrawLines("tagline", lines, small_font, w - pad, top + 150, 56)
                 \o FooterOps(tiny_font, pad, w, h - 90)
    IN  IF disk_ok THEN [st |-> "returned", ops |-> drawn \o SaveOps(w, h)]
        ELSE [st |-> "raised", exc |-> "OSError", ops |-> drawn]

---------------------------------------------------------------------------
(* main: lines 453-571 *)

\* The exit status of a process that has not exited
Running == -1

\* "site", the stem of the site images
SITE == <<115, 105, 116, 101>>

LogEntry(lvl, msg, job, exc) == [lvl |-> lvl, msg |-> msg, job |-> job, exc |-> exc]

\* _summary(generated, errors, t0), lines 566-571
SummaryEntry(gen, errs) ==
    [lvl |-> "info", msg |-> "Done", job |-> <<gen, errs>>, exc |-> ""]

\* sizes, line 481
SelectSizes(format) ==
    SelectSeq(SIZES, LAMBDA e : IsNone(format) \/ e.kind = format[1])

\* The condition of line 495
SiteSelected(a) == a.all \/ a.site_only \/ (a.product = <<>> /\ ~a.all)

\* Strings in sorted() order
SlugLess(x, y) ==
    \E k \in 1..(Min(Len(x), Len(y)) + 1) :
        /\ \A j \in 1..(k - 1) : x[j] = y[j]
        /\ IF k > Len(x) THEN k <= Len(y)
           ELSE k <= Len(y) /\ x[k] < y[k]

\* sorted(S) of a set of strings
Sorted(S) ==
    LET kth(k) == CHOOSE x \in S : Cardinality({y \in S : SlugLess(y, x)}) = k - 1
    IN  AsSeq([k \in 1..Cardinality(S) |-> kth(k)])

\* wanted, line 521
Wanted(raw) == {Strip(raw[i]) : i \in 1..Len(raw)} \ {<<>>}

\* sorted(products_dir.glob("*.html")), line 519
GlobHtml(pages) == Sorted({sl \in DOMAIN pages : ~IsNone(pages[sl])})

\* return 1 if errors else 0, line 563
ExitCode(errs) == IF errs # 0 THEN 1 ELSE 0

\* What one step of a loop of main does: whether an exception left main, what it
\* wrote, what it added to the counters and to the log
Outcome(crashed, wrote, gen, errs, logged) ==
    [crashed |-> crashed, wrote |-> wrote, gen |-> gen, errs |-> errs, logged |-> logged]

\* dest.relative_to(repo_root) raises ValueError when --out is outside the repository
Traceback(job, exc) == <<LogEntry("traceback", "Traceback", job, exc)>>

\* Lines 502-510 once render_site_image has run: r is what it gave
SiteRendered(a, job, r) ==
    IF r.st = "raised" THEN Outcome(TRUE, {}, 0, 0, Traceback(job, r.exc))
    ELSE IF ~a.out_in_repo THEN Outcome(TRUE, {job}, 0, 0, Traceback(job, "ValueError"))
    ELSE Outcome(FALSE, {job}, 1, 0, <<LogEntry("info", "OK", job, "")>>)

\* The body of the site loop for one kind, lines 497-510
SiteJobOutcome(a, kind, size, tagline, disk_ok) ==
    LET job == <<SITE, kind>>
    IN  IF a.dry_run
        THEN IF ~a.out_in_repo THEN Outcome(TRUE, {}, 0, 0, Traceback(job, "ValueError"))
             ELSE Outcome(FALSE, {}, 1, 0, <<LogEntry("info", "[dry-run]", job, "")>>)
        ELSE SiteRendered(a, job, render_site_image(size, kind, tagline, disk_ok))

\* The mkdir and save of lines 396-397 failing when the disk does: r is what the
\* drawing gave
SaveTo(r, disk_ok) ==
    IF r.st = "returned" /\ ~disk_ok
    THEN [st |-> "raised", exc |-> "OSError", ops |-> SubSeq(r.ops, 1, Len(r.ops) - 1)]
    ELSE r

\* render_product_image on a disk that takes the file or not
RenderProduct(prod, size, kind, photo, disk_ok) ==
    SaveTo(render_product_image(prod, size, kind, photo), disk_ok)

ProductRendered_CountsFailures(a, job, r) ==
    IF r.st = "raised"
    THEN Outcome(FALSE, {}, 1, 1, <<LogEntry("error", "ERROR", job, r.exc)>>)
    ELSE IF ~a.out_in_repo
    THEN Outcome(FALSE, {job}, 1, 1, <<LogEntry("error", "ERROR", job, "ValueError")>>)
    ELSE Outcome(FALSE, {job}, 1, 0, <<LogEntry("info", "OK", job, "")>>)

\* Lines 546-560 once render_product_image has run: the try and its except
ProductRendered(a, job, r) ==
    IF r.st = "raised"
    THEN Outcome(FALSE, {}, 0, 1, <<LogEntry("error", "ERROR", job, r.exc)>>)
    ELSE IF ~a.out_in_repo
    THEN Outcome(FALSE, {job}, 0, 1, <<LogEntry("error", "ERROR", job, "ValueError")>>)
    ELSE Outcome(FALSE, {job}, 1, 0, <<LogEntry("info", "OK", job, "")>>)

\* The body of the product loop for one kind, lines 541-560
ProductJobOutcome(a, prod, kind, size, photo, disk_ok) ==
    LET job == <<prod.slug, kind>>
    IN  IF a.dry_run
        THEN IF ~a.out_in_repo THEN Outcome(TRUE, {}, 0, 0, Traceback(job, "ValueError"))
             ELSE Outcome(FALSE, {}, 1, 0, <<LogEntry("info", "[dry-run]", job, "")>>)
        ELSE ProductRendered(a, job, RenderProduct(prod, size, kind, photo, disk_ok))

\* Lines 533-538 once parse_product_page has run: r is what it gave
Parsed(slug, r) ==
    IF r.st = "raised"
    THEN [parsed |-> FALSE, errs |-> 1,
          logged |-> <<LogEntry("error", "ERROR", <<slug>>, r.exc)>>]
    ELSE [parsed |-> TRUE, errs |-> 0, logged |-> <<>>, info |-> r.val]

PageOutcome_NotFoundUncounted(pages, slug) ==
    IF slug \notin DOMAIN pages \/ IsNone(pages[slug])
    THEN [parsed |-> FALSE, errs |-> 0,
          logged |-> <<LogEntry("error", "ERROR  product page not found", <<slug>>, "")>>]
    ELSE Parsed(slug, parse_product_page(pages[slug][1]))

\* The head of the product loop for one page, lines 528-538
PageOutcome(pages, slug) ==
    IF slug \notin DOMAIN pages \/ IsNone(pages[slug])
    THEN [parsed |-> FALSE, errs |-> 1,
          logged |-> <<LogEntry("error", "ERROR  product page not found", <<slug>>, "")>>]
    ELSE Parsed(slug, parse_product_page(pages[slug][1]))

---------------------------------------------------------------------------
(* Calls of the pure functions *)

Pending == [st |-> "pending"]
Returned(v) == [st |-> "returned", val |-> v]
Raised(e, what) == [st |-> "raised", exc |-> e, about |-> what]

\* The driver's variables while only a function is being called
MainIdle ==
    /\ args = <<>>
    /\ env = <<>>
    /\ pc = "idle"
    /\ sizes = <<>>
    /\ html_files = <<>>
    /\ idx = 0
    /\ kidx = 0
    /\ product = <<>>
    /\ generated = 0
    /\ errors = 0
    /\ log = <<>>
    /\ fs = {}
    /\ status = Running
    /\ reports = <<>>

Alphabet == {SPACE, LATIN_A, HEBREW_ALEF, ARABIC_BEH}

Texts(n) == UNION {[1..k -> Alphabet] : k \in 0..n}

WrapAlphabet == {SPACE, LATIN_A, ARABIC_BEH}

WrapTexts(n) == UNION {[1..k -> WrapAlphabet] : k \in 0..n}

Fonts == {[size |-> 1], [size |-> 2]}

ShapeCalls == {[fn |-> "shape_text", text |-> t] : t \in Texts(MaxTextLen)}

WrapCalls ==
    {[fn |-> "wrap_text", text |-> t, font |-> f, max_width |-> w, max_lines |-> n] :
        t \in WrapTexts(MaxTextLen), f \in Fonts, w \in 0..MaxWidth, n \in 1..MaxLines}

CallShapeText ==
    /\ call.fn = "shape_text"
    /\ ret = Pending
    /\ ret' = Returned(shape_text(call.text))
    /\ UNCHANGED <<call, mainVars>>

CallWrapText ==
    /\ call.fn = "wrap_text"
    /\ ret = Pending
    /\ ret' = Returned(wrap_text(call.text, call.font, call.max_width, call.max_lines))
    /\ UNCHANGED <<call, mainVars>>

InitShape == call \in ShapeCalls /\ ret = Pending /\ MainIdle
SpecShape == InitShape /\ [][CallShapeText]_vars

InitWrap == call \in WrapCalls /\ ret = Pending /\ MainIdle
SpecWrap == InitWrap /\ [][CallWrapText]_vars

\* "#1D4ED8", "1D4ED8", "#ABC", the palette of add_background, and signed slices
HexSamples ==
    {<<35, 49, 68, 52, 69, 68, 56>>, <<49, 68, 52, 69, 68, 56>>, <<35, 65, 66, 67>>,
     <<35, 56, 66, 53, 67, 70, 54>>, <<35, 49, 52, 66, 56, 65, 54>>,
     <<35, 45, 49, 43, 100, 32, 49>>}

HexDigits == {49, 100, 71}

HexCalls ==
    {[fn |-> "hex_to_rgb", hex_color |-> t] : t \in HexSamples}
    \cup {[fn |-> "hex_to_rgb", hex_color |-> pre \o t] :
            pre \in {<<>>, <<HASH>>, <<HASH, HASH>>, <<SPACE, HASH>>},
            t \in UNION {[1..k -> HexDigits] : k \in 0..(HexLen + 1)}}

ContainCalls ==
    {[fn |-> "contain", size |-> <<w, h>>, max_size |-> <<mw, mh>>] :
        w \in 1..MaxDim, h \in 1..MaxDim, mw \in 1..MaxDim, mh \in 1..MaxDim}

CallHexToRgb ==
    /\ call.fn = "hex_to_rgb"
    /\ ret = Pending
    /\ ret' = hex_to_rgb(call.hex_color)
    /\ UNCHANGED <<call, mainVars>>

CallContain ==
    /\ call.fn = "contain"
    /\ ret = Pending
    /\ ret' = Returned(contain(call.size, call.max_size))
    /\ UNCHANGED <<call, mainVars>>

InitHex == call \in HexCalls /\ ret = Pending /\ MainIdle
SpecHex == InitHex /\ [][CallHexToRgb]_vars

InitContain == call \in ContainCalls /\ ret = Pending /\ MainIdle
SpecContain == InitContain /\ [][CallContain]_vars

\* The pages parse_product_page is called on
Some(x) == <<x>>
None == <<>>

PageH1s ==
    {None} \cup
    {Some([data_en |-> d, nodes |-> n]) :
        d \in {None, Some(<<>>), Some(<<SPACE, LATIN_A>>),
               Some(<<LATIN_A, CP.lt, LATIN_A, CP.gt, LATIN_A>>)},
        n \in {<<>>, <<(<<LATIN_A>>)>>, <<(<<SPACE, LATIN_A, SPACE>>), (<<LATIN_A>>)>>}}

PageArTexts == {None, Some(<<>>), Some(<<SPACE, ARABIC_BEH, SPACE>>)}

PageDescs == {None} \cup {Some([data_ar |-> t]) : t \in PageArTexts}

PagePrices == {None, Some([nodes |-> <<>>]), Some([nodes |-> <<(<<SPACE, 49, SPACE>>)>>])}

PageImgs == {None} \cup {Some([src |-> x]) : x \in {None, Some(""), Some("ok.png"), Some("gone.png")}}

PageLinks == {None} \cup {Some([href |-> t]) : t \in {None, Some(<<SPACE, LATIN_A, SPACE>>)}}

Pages ==
    {[stem |-> <<LATIN_A>>, files |-> {"ok.png"}, h1 |-> h, desc |-> d, spec |-> sp,
      price_el |-> pr, img |-> im, canonical |-> ln] :
        h \in PageH1s, d \in PageDescs, sp \in PageDescs, pr \in PagePrices,
        im \in PageImgs, ln \in PageLinks}

ParseCalls == {[fn |-> "parse_product_page", html |-> pg] : pg \in Pages}

CallParseProductPage ==
    /\ call.fn = "parse_product_page"
    /\ ret = Pending
    /\ ret' = parse_product_page(call.html)
    /\ UNCHANGED <<call, mainVars>>

InitParse == call \in ParseCalls /\ ret = Pending /\ MainIdle
SpecParse == InitParse /\ [][CallParseProductPage]_vars

\* The products render_product_image is called on
Word(c) == <<c, c, c, c, c, c>>

LongText(c) == Join(<<Word(c), Word(c), Word(c), Word(c), Word(c), Word(c), Word(c)>>)

RenderTexts == {<<>>, <<ARABIC_BEH, ARABIC_BEH>>, LongText(ARABIC_BEH), LongText(LATIN_A)}

Products ==
    {[slug |-> <<LATIN_A>>, name_en |-> <<LATIN_A, LATIN_A>>, desc_ar |-> d, spec_ar |-> sp,
      price |-> pr, image_path |-> "ok.png", page_url |-> <<>>] :
        d \in RenderTexts, sp \in RenderTexts, pr \in {<<>>, <<49>>}}

Photos == {[ok |-> FALSE, size |-> <<1, 1>>], [ok |-> TRUE, size |-> <<1, 1>>],
           [ok |-> TRUE, size |-> <<2, 1>>]}

RenderCalls ==
    {[fn |-> "render_product_image", product |-> pr, kind |-> SIZES[k].kind,
      size |-> SIZES[k].size, photo |-> ph] :
        pr \in Products, k \in 1..Len(SIZES), ph \in Photos}

CallRenderProductImage ==
    /\ call.fn = "render_product_image"
    /\ ret = Pending
    /\ ret' = render_product_image(call.product, call.size, call.kind, call.photo)
    /\ UNCHANGED <<call, mainVars>>

InitRender == call \in RenderCalls /\ ret = Pending /\ MainIdle
SpecRender == InitRender /\ [][CallRenderProductImage]_vars

---------------------------------------------------------------------------
(* The batch driver: one invocation of main, then the same command line again
   with --dry-run switched *)

SlugA == <<LATIN_A>>
SlugB == <<98>>

\* --product values as typed
ProductArgs == {<<>>, <<SlugB, SlugA>>, <<(<<SPACE>> \o SlugA), SlugA>>, <<(<<SPACE>>)>>}

\* The product pages of the repository
MainPage(stem, h1, im) ==
    [stem |-> stem, files |-> {"ok.png", "bad.png"}, h1 |-> h1,
     desc |-> Some([data_ar |-> Some(<<ARABIC_BEH, ARABIC_BEH>>)]), spec |-> None,
     price_el |-> Some([nodes |-> <<(<<49>>)>>]), img |-> im, canonical |-> None]

GoodH1 == Some([data_en |-> None, nodes |-> <<(<<LATIN_A>>)>>])

\* No page; a page that parses, its photo readable or malformed
SoundPages(stem) ==
    {None,
     Some(MainPage(stem, GoodH1, Some([src |-> Some("bad.png")]))),
     Some(MainPage(stem, GoodH1, Some([src |-> Some("ok.png")])))}

\* and a page without a title, a page whose photo is gone
MainPages(stem) ==
    SoundPages(stem) \cup
    {Some(MainPage(stem, None, Some([src |-> Some("ok.png")]))),
     Some(MainPage(stem, GoodH1, Some([src |-> Some("gone.png")])))}

\* The photo files: whether Image.open reads them, and their size
PhotoFile(path) ==
    IF path = "ok.png" THEN [ok |-> TRUE, size |-> <<2, 1>>]
    ELSE [ok |-> FALSE, size |-> <<1, 1>>]

Args ==
    [all : BOOLEAN, product : ProductArgs, site_only : BOOLEAN, dry_run : BOOLEAN,
     format : {None, Some("story")}, out_in_repo : BOOLEAN]

\* The repositories: with the fonts installed, every combination of two product
\* pages; and one without a usable font
Envs ==
    {[fonts_ok |-> TRUE, index |-> Some([content |-> Some(<<SPACE, ARABIC_BEH, SPACE>>)]), pages |-> (SlugA :> pa) @@ (SlugB :> pb)] :
        pa \in MainPages(SlugA), pb \in SoundPages(SlugB)}
    \cup {[fonts_ok |-> FALSE, index |-> None,
            pages |-> (SlugA :> None) @@ (SlugB :> None)]}

FnIdle == call = [fn |-> "main"] /\ ret = Pending

InvocationStart ==
    /\ pc = "start"
    /\ sizes = <<>>
    /\ html_files = <<>>
    /\ idx = 0
    /\ kidx = 0
    /\ product = <<>>
    /\ generated = 0
    /\ errors = 0
    /\ log = <<>>
    /\ status = Running

InitMain ==
    /\ FnIdle
    /\ args \in Args
    /\ env \in Envs
    /\ InvocationStart
    /\ fs = {}
    /\ reports = <<>>

\* How many saves of this run have failed
DiskFailures == Cardinality({i \in 1..Len(log) : log[i].exc = "OSError"})

DiskChoices == IF DiskFailures < MaxDiskFailures THEN BOOLEAN ELSE {TRUE}

\* Lines 480-491: the sizes, the fonts, the counters
Start ==
    /\ pc = "start"
    /\ IF ~env.fonts_ok
       THEN /\ log' = Append(log, LogEntry("error", "Font error", <<>>, "FileNotFoundError"))
            /\ status' = 1
            /\ pc' = "exit"
            /\ UNCHANGED <<sizes, kidx>>
       ELSE /\ sizes' = SelectSizes(args.format)
            /\ kidx' = 1
            /\ pc' = "site"
            /\ UNCHANGED <<log, status>>
    /\ UNCHANGED <<fnVars, args, env, html_files, idx, product, generated, errors, fs, reports>>

\* Lines 494-510: one pass of the site loop
SiteJob ==
    /\ pc = "site"
    /\ SiteSelected(args)
    /\ kidx <= Len(sizes)
    /\ \E disk_ok \in DiskChoices :
        \E o \in {SiteJobOutcome(args, sizes[kidx].kind, sizes[kidx].size,
                                parse_site_tagline(env.index), disk_ok)} :
            /\ log' = log \o o.logged
            /\ fs' = fs \cup o.wrote
            /\ generated' = generated + o.gen
            /\ errors' = errors + o.errs
            /\ IF o.crashed
               THEN status' = 1 /\ pc' = "exit" /\ kidx' = kidx
               ELSE status' = status /\ pc' = pc /\ kidx' = kidx + 1
    /\ UNCHANGED <<fnVars, args, env, sizes, html_files, idx, product, reports>>

\* Lines 512-525: after the site loop, return or list the product pages
AfterSite ==
    /\ pc = "site"
    /\ ~SiteSelected(args) \/ kidx > Len(sizes)
    /\ IF args.site_only \/ (~args.all /\ Wanted(args.product) = {})
       THEN /\ log' = Append(log, SummaryEntry(generated, errors))
            /\ status' = 0
            /\ pc' = "exit"
            /\ UNCHANGED <<html_files, idx>>
       ELSE /\ html_files' = IF args.all THEN GlobHtml(env.pages)
                             ELSE Sorted(Wanted(args.product))
            /\ idx' = 1
            /\ pc' = "page"
            /\ UNCHANGED <<log, status>>
    /\ UNCHANGED <<fnVars, args, env, sizes, kidx, product, generated, errors, fs, reports>>

\* Lines 527-538: the next page, found and parsed or counted as an error
PageStep ==
    /\ pc = "page"
    /\ idx <= Len(html_files)
    /\ \E o \in {PageOutcome(env.pages, html_files[idx])} :
           /\ log' = log \o o.logged
           /\ errors' = errors + o.errs
           /\ IF o.parsed
              THEN product' = o.info /\ kidx' = 1 /\ pc' = "render" /\ idx' = idx
              ELSE product' = product /\ kidx' = kidx /\ pc' = pc /\ idx' = idx + 1
    /\ UNCHANGED <<fnVars, args, env, sizes, html_files, generated, fs, status, reports>>

\* Lines 540-560: one pass of the loop over the kinds of the current product
ProductJob ==
    /\ pc = "render"
    /\ kidx <= Len(sizes)
    /\ \E disk_ok \in DiskChoices :
        \E o \in {ProductJobOutcome(args, product, sizes[kidx].kind, sizes[kidx].size,
                                   PhotoFile(product.image_path), disk_ok)} :
            /\ log' = log \o o.logged
            /\ fs' = fs \cup o.wrote
            /\ generated' = generated + o.gen
            /\ errors' = errors + o.errs
            /\ IF o.crashed
               THEN status' = 1 /\ pc' = "exit" /\ kidx' = kidx /\ idx' = idx
               ELSE IF kidx = Len(sizes)
               THEN status' = status /\ pc' = "page" /\ kidx' = kidx /\ idx' = idx + 1
               ELSE status' = status /\ pc' = pc /\ kidx' = kidx + 1 /\ idx' = idx
    /\ UNCHANGED <<fnVars, args, env, sizes, html_files, product, reports>>

\* Lines 562-563: the summary and the exit status
Finish ==
    /\ pc = "page"
    /\ idx > Len(html_files)
    /\ log' = Append(log, SummaryEntry(generated, errors))
    /\ status' = ExitCode(errors)
    /\ pc' = "exit"
    /\ UNCHANGED <<fnVars, args, env, sizes, html_files, idx, kidx, product, generated,
                   errors, fs, reports>>

\* The same command line is run once more on the same repository, with
\* --dry-run switched (the usage of lines 9 and 12)
Reinvoke ==
    /\ pc = "exit"
    /\ reports = <<>>
    /\ reports' = <<[dry_run |-> args.dry_run, log |-> log, status |-> status, fs |-> fs]>>
    /\ args' = [args EXCEPT !.dry_run = ~@]
    /\ pc' = "start"
    /\ sizes' = <<>>
    /\ html_files' = <<>>
    /\ idx' = 0
    /\ kidx' = 0
    /\ product' = <<>>
    /\ generated' = 0
    /\ errors' = 0
    /\ log' = <<>>
    /\ status' = Running
    /\ UNCHANGED <<fnVars, env, fs>>

NextMain == Start \/ SiteJob \/ AfterSite \/ PageStep \/ ProductJob \/ Finish \/ Reinvoke

SpecMain == InitMain /\ [][NextMain]_vars

---------------------------------------------------------------------------
(* Claims about wrap_text and shape_text *)

IsPrefix(a, b) == Len(a) <= Len(b) /\ SubSeq(b, 1, Len(a)) = a

RECURSIVE WordsOfLines(_)
WordsOfLines(lines) ==
    IF lines = <<>> THEN <<>> ELSE Split(Head(lines)) \o WordsOfLines(Tail(lines))

WrapReturned == call.fn = "wrap_text" /\ ret.st = "returned"

\* C1 as stated: for all non-empty text and every max_lines >= 1, wrap_text
\* returns between 1 and max_lines lines.
C1_NonEmptyTextGivesLines ==
    (WrapReturned /\ call.text # <<>> /\ call.max_lines >= 1)
        => (1 <= Len(ret.val) /\ Len(ret.val) <= call.max_lines)

\* C1 (amended): for all text holding at least one non-whitespace character and
\* every max_lines >= 1, wrap_text returns between 1 and max_lines lines; for
\* every text at all the returned length never exceeds max_lines.
C1_LineCountWithinCap ==
    (WrapReturned /\ call.max_lines >= 1)
        => /\ Len(ret.val) <= call.max_lines
           /\ (\E i \in 1..Len(call.text) : ~IsSpace(call.text[i])) => 1 <= Len(ret.val)

\* wrap_text reached the cap with two lines and dropped the last word
C1_Witness ==
    /\ WrapReturned
    /\ call.max_lines = 2
    /\ Len(ret.val) = 2
    /\ Len(Split(call.text)) = 3
    /\ Len(WordsOfLines(ret.val)) = 2

\* C2: the words of the returned lines, read line by line, are a prefix of the
\* whitespace-split words of the input, and all of them unless the max_lines cap
\* was reached.
C2_WordsArePrefix ==
    WrapReturned
        => /\ IsPrefix(WordsOfLines(ret.val), Split(call.text))
           /\ Len(ret.val) < call.max_lines => WordsOfLines(ret.val) = Split(call.text)

\* a wrap over several lines that kept every word, one of the lines holding two
C2_Witness ==
    /\ WrapReturned
    /\ Len(ret.val) = 2
    /\ call.max_lines = 3
    /\ Len(Split(call.text)) = 3
    /\ WordsOfLines(ret.val) = Split(call.text)

\* The width wrap_text measures for a line: text_width of the shaped line in
\* the font of the call
ShapedWidth(line) == text_width(shape_text(line), call.font)

\* Every line is the single-space join of its own words, one at least, and the
\* words of the lines in order are consecutive words of the input from the first
WholeWordLines(lines) ==
    /\ \A k \in 1..Len(lines) :
          Split(lines[k]) # <<>> /\ lines[k] = Join(Split(lines[k]))
    /\ IsPrefix(WordsOfLines(lines), Split(call.text))

\* C11: wrap_text is greedy and never splits a word: every returned line is a
\* single-space join of whole consecutive input words; every returned line of
\* two or more words has shaped width <= max_width; a line exceeds max_width
\* only if it is a single over-long word; and for every two consecutive
\* returned lines, the earlier line with a space and the first word of the
\* later line appended has shaped width > max_width.
C11_GreedyWholeWords ==
    WrapReturned =>
        /\ WholeWordLines(ret.val)
        /\ \A k \in 1..Len(ret.val) :
              Len(Split(ret.val[k])) >= 2 => ShapedWidth(ret.val[k]) <= call.max_width
        /\ \A k \in 1..Len(ret.val) :
              ShapedWidth(ret.val[k]) > call.max_width =>
                  /\ Len(Split(ret.val[k])) = 1
                  /\ ShapedWidth(Split(ret.val[k])[1]) > call.max_width
        /\ \A k \in 1..(Len(ret.val) - 1) :
              ShapedWidth(ret.val[k] \o <<SPACE>> \o Split(ret.val[k + 1])[1])
                  > call.max_width

\* a line of two words that fits was closed by a third word that did not, and
\* that word began the next line
C11_Witness ==
    /\ WrapReturned
    /\ Len(ret.val) = 2
    /\ Len(Split(ret.val[1])) = 2
    /\ ShapedWidth(ret.val[1]) = call.max_width
    /\ Len(Split(call.text)) = 3
    /\ \E i \in 1..Len(call.text) : call.text[i] = ARABIC_BEH

\* a word wider than max_width came back as a line of its own, followed by
\* another line
OverLongWordLine ==
    /\ WrapReturned
    /\ Len(ret.val) >= 2
    /\ ShapedWidth(ret.val[1]) > call.max_width
    /\ ShapedWidth(ret.val[2]) <= call.max_width

NoArabicCodepoint(text) == \A i \in 1..Len(text) : text[i] < 1536 \/ text[i] > 1791

ShapeReturned == call.fn = "shape_text" /\ ret.st = "returned"

\* C8 as stated: for all text with no codepoint in U+0600..U+06FF, shape_text
\* returns the text unchanged.
C8_NonArabicUnchanged ==
    (ShapeReturned /\ NoArabicCodepoint(call.text)) => ret.val = call.text

\* C8 (amended): for all text with no codepoint in U+0600..U+06FF, shape_text
\* returns the text with its leading and trailing whitespace removed and nothing
\* else changed (so unchanged when the text has neither).
C8_NonArabicOnlyTrimmed ==
    (ShapeReturned /\ NoArabicCodepoint(call.text)) => ret.val = Strip(call.text)

\* right-to-left text outside the Arabic block, with a space before it, came back
\* trimmed and in its logical order
C8_Witness ==
    /\ ShapeReturned
    /\ call.text = <<SPACE, HEBREW_ALEF, LATIN_A>>
    /\ ret.val = <<HEBREW_ALEF, LATIN_A>>

---------------------------------------------------------------------------
(* Claims about contain and hex_to_rgb *)

ContainReturned == call.fn = "contain" /\ ret.st = "returned"

\* C7: for every source image and every box with all sides >= 1, contain returns
\* an image whose width is in 1..max_w and whose height is in 1..max_h.
C7_ContainWithinBox ==
    (ContainReturned /\ call.size[1] >= 1 /\ call.size[2] >= 1
        /\ call.max_size[1] >= 1 /\ call.max_size[2] >= 1)
        => /\ 1 <= ret.val[1] /\ ret.val[1] <= call.max_size[1]
           /\ 1 <= ret.val[2] /\ ret.val[2] <= call.max_size[2]

\* a wide image in a small box: the height would scale below one pixel
C7_Witness ==
    /\ ContainReturned
    /\ call.size = <<7, 1>>
    /\ call.max_size = <<3, 5>>
    /\ ret.val = <<3, 1>>

HexDone == call.fn = "hex_to_rgb" /\ ret.st # "pending"

\* C9 as stated: hex_to_rgb("#1D4ED8") returns (29, 76, 216), so does
\* hex_to_rgb("1D4ED8"), and hex_to_rgb("#ABC") raises a value error.
C9_HexExamplesAsStated ==
    HexDone =>
        /\ call.hex_color = <<35, 49, 68, 52, 69, 68, 56>> => ret = Returned(<<29, 76, 216>>)
        /\ call.hex_color = <<49, 68, 52, 69, 68, 56>> => ret = Returned(<<29, 76, 216>>)
        /\ call.hex_color = <<35, 65, 66, 67>> => (ret.st = "raised" /\ ret.exc = "ValueError")

\* C9 (amended): hex_to_rgb("#1D4ED8") returns (29, 78, 216), so does
\* hex_to_rgb("1D4ED8") without the leading hash, and hex_to_rgb("#ABC") raises a
\* value error.
C9_HexExamples ==
    HexDone =>
        /\ call.hex_color = <<35, 49, 68, 52, 69, 68, 56>> => ret = Returned(<<29, 78, 216>>)
        /\ call.hex_color = <<49, 68, 52, 69, 68, 56>> => ret = Returned(<<29, 78, 216>>)
        /\ call.hex_color = <<35, 65, 66, 67>> => (ret.st = "raised" /\ ret.exc = "ValueError")

\* hex_to_rgb("#1D4ED8") has returned
C9_Witness ==
    /\ HexDone
    /\ call.hex_color = <<35, 49, 68, 52, 69, 68, 56>>
    /\ ret.st = "returned"

---------------------------------------------------------------------------
(* Claims about parse_product_page *)

ParseDone == call.fn = "parse_product_page" /\ ret.st # "pending"

NoTitle(html) == html.h1 = <<>>
NoImgSrc(html) == html.img = <<>> \/ html.img[1].src = <<>> \/ html.img[1].src[1] = ""
PhotoGone(html) == ~NoImgSrc(html) /\ html.img[1].src[1] \notin html.files

\* Every absent optional field of the page is "" in the ProductInfo
OptionalDefaults(html, info) ==
    /\ (html.desc = <<>> \/ html.desc[1].data_ar = <<>>) => info.desc_ar = <<>>
    /\ (html.spec = <<>> \/ html.spec[1].data_ar = <<>>) => info.spec_ar = <<>>
    /\ html.price_el = <<>> => info.price = <<>>
    /\ (html.canonical = <<>> \/ html.canonical[1].href = <<>>) => info.page_url = <<>>

\* C6 as stated: parse_product_page fails naming the missing title when the page
\* has no title heading, fails when the <img> or its src is missing, fails with a
\* file-not-found error when the referenced photo does not exist, and succeeds in
\* every other case, absent optional fields coming back as "".
C6_ParseFailuresAsStated ==
    ParseDone =>
        /\ NoTitle(call.html) =>
              (ret.st = "raised" /\ ret.about = "Missing product title (<h1>)")
        /\ NoImgSrc(call.html) => ret.st = "raised"
        /\ PhotoGone(call.html) => (ret.st = "raised" /\ ret.exc = "FileNotFoundError")
        /\ (~NoTitle(call.html) /\ ~NoImgSrc(call.html) /\ ~PhotoGone(call.html)) =>
              (ret.st = "returned" /\ OptionalDefaults(call.html, ret.val))

\* C6 (amended): parse_product_page fails with an error naming the missing title
\* when the page has no title heading; fails with an error when the <img> or its
\* src is missing or empty (the missing-image error when the title is there);
\* fails with a file-not-found error when the title and the src are there and
\* the referenced photo does not exist; and succeeds in every other case, absent
\* optional fields coming back as "".
C6_ParseFailures ==
    ParseDone =>
        /\ NoTitle(call.html) =>
              (ret.st = "raised" /\ ret.about = "Missing product title (<h1>)")
        /\ NoImgSrc(call.html) => ret.st = "raised"
        /\ (~NoTitle(call.html) /\ NoImgSrc(call.html)) =>
              (ret.exc = "ValueError" /\ ret.about = "Missing product image")
        /\ (~NoTitle(call.html) /\ PhotoGone(call.html)) =>
              (ret.st = "raised" /\ ret.exc = "FileNotFoundError")
        /\ (~NoTitle(call.html) /\ ~NoImgSrc(call.html) /\ ~PhotoGone(call.html)) =>
              (ret.st = "returned" /\ OptionalDefaults(call.html, ret.val))

\* a page with a title and an <img> whose file is gone has failed with
\* FileNotFoundError
C6_Witness ==
    /\ ParseDone
    /\ ~NoTitle(call.html)
    /\ PhotoGone(call.html)
    /\ ret.st = "raised"
    /\ ret.exc = "FileNotFoundError"

---------------------------------------------------------------------------
(* Claims about render_product_image *)

RenderDone == call.fn = "render_product_image" /\ ret.st # "pending"

\* The order C10 states: background, brand mark, card with shadow, photo, title,
\* description, spec line, price, footer
StatedRank(op) ==
    CASE op = "background" -> 1
      [] op = "brand" -> 2
      [] op \in {"shadow", "card"} -> 3
      [] op = "photo" -> 4
      [] op = "title" -> 5
      [] op = "desc" -> 6
      [] op = "spec" -> 7
      [] op = "price" -> 8
      [] op = "footer" -> 9
      [] OTHER -> 10

\* The order of the story layout: background, brand mark, title, spec line,
\* price, card with shadow, photo, footer
StoryRank(op) ==
    CASE op = "background" -> 1
      [] op = "brand" -> 2
      [] op = "title" -> 3
      [] op = "spec" -> 4
      [] op = "price" -> 5
      [] op \in {"shadow", "card"} -> 6
      [] op = "photo" -> 7
      [] op = "footer" -> 8
      [] OTHER -> 10

InStatedOrder(ops) ==
    \A i, j \in 1..Len(ops) : i < j => StatedRank(ops[i].op) <= StatedRank(ops[j].op)

InStoryOrder(ops) ==
    \A i, j \in 1..Len(ops) : i < j => StoryRank(ops[i].op) <= StoryRank(ops[j].op)

Count(ops, name) == Cardinality({i \in 1..Len(ops) : ops[i].op = name})

\* The operations every completed render issues
DrawsTheFixedParts(ops) ==
    /\ Count(ops, "background") = 1
    /\ Count(ops, "brand") = 2
    /\ Count(ops, "shadow") = 1
    /\ Count(ops, "card") = 1
    /\ Count(ops, "photo") = 1
    /\ Count(ops, "title") = 1
    /\ Count(ops, "footer") = 2

\* C10 as stated: for each of the three kinds render_product_image draws in the
\* order background, brand mark, card with shadow, photo, title, description,
\* spec line, price, footers.
C10_SameOrderForEveryKind ==
    RenderDone => InStatedOrder(ret.ops)

\* C10 (amended): for the kinds square and og render_product_image draws in the
\* order background, brand mark, card with shadow, contained photo, title,
\* wrapped description, wrapped spec line, price, the two footer strings (the
\* description, spec line and price only when not empty); for the kind story it
\* draws background, brand mark, title, wrapped spec line, price, card with
\* shadow, contained photo, the two footer strings, and never the description.
C10_OrderPerLayout ==
    RenderDone =>
        /\ call.kind \in {"square", "og"} =>
              /\ InStatedOrder(ret.ops)
              /\ ret.st = "returned" =>
                    /\ DrawsTheFixedParts(ret.ops)
                    /\ Count(ret.ops, "desc") > 0 <=> call.product.desc_ar # <<>>
                    /\ Count(ret.ops, "spec") > 0 <=> call.product.spec_ar # <<>>
                    /\ Count(ret.ops, "price") > 0 <=> call.product.price # <<>>
        /\ call.kind = "story" =>
              /\ InStoryOrder(ret.ops)
              /\ Count(ret.ops, "desc") = 0
              /\ ret.st = "returned" =>
                    /\ DrawsTheFixedParts(ret.ops)
                    /\ Count(ret.ops, "spec") > 0 <=> call.product.spec_ar # <<>>
                    /\ Count(ret.ops, "price") > 0 <=> call.product.price # <<>>

\* a square image was rendered with a description wrapped to its three-line cap,
\* a spec line and a price
C10_Witness ==
    /\ RenderDone
    /\ call.kind = "square"
    /\ ret.st = "returned"
    /\ Count(ret.ops, "desc") = 3
    /\ Count(ret.ops, "spec") = 2
    /\ Count(ret.ops, "price") = 1

---------------------------------------------------------------------------
(* Claims about main *)

\* An invocation of main has ended, by return or by an exception leaving it
Exited == pc = "exit"

\* The exceptions rendering raises: the photo cannot be read, the file cannot
\* be written
RenderExceptions == {"OSError", "UnidentifiedImageError"}

Kinds == {sizes[k].kind : k \in 1..Len(sizes)}

\* The render jobs of this command line on this repository: the site images
\* when selected, and every kind of every listed page that parses
SiteJobs == IF SiteSelected(args) THEN {<<SITE, k>> : k \in Kinds} ELSE {}

ListedSlugs ==
    IF args.site_only THEN {}
    ELSE IF args.all THEN {sl \in DOMAIN env.pages : ~IsNone(env.pages[sl])}
    ELSE Wanted(args.product)

ParsingSlugs ==
    {sl \in ListedSlugs :
        /\ sl \in DOMAIN env.pages
        /\ ~IsNone(env.pages[sl])
        /\ parse_product_page(env.pages[sl][1]).st = "returned"}

ProductJobs == {<<sl, k>> : sl \in ParsingSlugs, k \in Kinds}

\* The log lines about a render job
JobLines(l) ==
    {i \in 1..Len(l) : l[i].msg \in {"OK", "ERROR", "[dry-run]", "Traceback"}
                       /\ Len(l[i].job) = 2}

Attempted(job) == \E i \in JobLines(log) : log[i].job = job

ErrorLines(l) == {i \in 1..Len(l) : l[i].lvl = "error"}

\* C3 as stated: in a run without --dry-run (fonts found, --out inside the
\* repository), every render that raised, of a site job or of a product job, was
\* caught and counted as one error, and every job of the batch was attempted.
C3_EveryRenderFailureCaught ==
    (Exited /\ ~args.dry_run /\ env.fonts_ok /\ args.out_in_repo) =>
        /\ \A i \in JobLines(log) :
              log[i].exc \in RenderExceptions => log[i].lvl = "error"
        /\ errors = Cardinality(ErrorLines(log))
        /\ \A job \in SiteJobs \cup ProductJobs : Attempted(job)

\* What the code does keep: once the site loop is over, every render of a
\* product job that raises is caught and counted, and all product jobs are
\* attempted.
ProductRenderFailuresCaught ==
    (Exited /\ ~args.dry_run /\ args.out_in_repo /\ log # <<>>
        /\ log[Len(log)].msg = "Done") =>
        /\ \A i \in JobLines(log) :
              log[i].exc \in RenderExceptions => log[i].lvl = "error"
        /\ errors = Cardinality(ErrorLines(log))
        /\ \A job \in SiteJobs \cup ProductJobs : Attempted(job)

\* The save of a site image failed: the exception left main with site images
\* still to render
SiteRenderEscaped ==
    /\ Exited
    /\ ~args.dry_run
    /\ args.out_in_repo
    /\ \E i \in JobLines(log) : log[i].lvl = "traceback" /\ log[i].exc = "OSError"
    /\ \E job \in SiteJobs : ~Attempted(job)

\* The lines that report a failed item: a page not found, a page that does
\* not parse, a render that raised (caught or not)
FailedItems(l) ==
    {i \in 1..Len(l) :
        \/ l[i].msg \in {"ERROR", "ERROR  product page not found"}
        \/ l[i].msg = "Traceback" /\ l[i].exc \in RenderExceptions}

\* C4: for every command line and every set of product pages, a run in which at
\* least one item failed (page not found, page that does not parse, render that
\* raised) ends with a non-zero exit status, whatever else succeeded.
C4_FailureGivesNonZeroExit ==
    (Exited /\ FailedItems(log) # {}) => status > 0

\* a run without --dry-run wrote an image, failed on a page and on a render,
\* and reached its summary
C4_Witness ==
    /\ Exited
    /\ ~args.dry_run
    /\ generated > 0
    /\ fs # {}
    /\ \E i \in FailedItems(log) : Len(log[i].job) = 1
    /\ \E i \in FailedItems(log) : Len(log[i].job) = 2
    /\ log[Len(log)].msg = "Done"
    /\ status = 1

\* The image count of the final summary, when the run reached it
Reported(l) ==
    IF l # <<>> /\ l[Len(l)].msg = "Done" THEN Some(l[Len(l)].job[1]) ELSE None

\* The render jobs a run reported as failed
FailedRenders(l) == Cardinality({i \in JobLines(l) : l[i].msg = "ERROR"})

\* The files there were when this invocation started
FsAtStart == IF reports = <<>> THEN {} ELSE reports[1].fs

\* Both invocations, with and without --dry-run, have ended with a summary
BothReported ==
    /\ Exited
    /\ reports # <<>>
    /\ Reported(log) # None
    /\ Reported(reports[1].log) # None

DryLog == IF args.dry_run THEN log ELSE reports[1].log
RealLog == IF args.dry_run THEN reports[1].log ELSE log

\* C5 as stated: a run with --dry-run writes no file, and the image count of
\* its summary equals the count of the same run without --dry-run.
C5_DryRunSameCount ==
    /\ args.dry_run => fs = FsAtStart
    /\ BothReported => Reported(DryLog) = Reported(RealLog)

\* C5 (amended): a run with --dry-run writes no file, and when it and the same
\* run without --dry-run both reach their summary, the count it reports is the
\* count of the run without --dry-run plus the number of render jobs that run
\* reported as failed: the two counts are equal exactly when no render fails.
C5_DryRunCountsPlannedJobs ==
    /\ args.dry_run => fs = FsAtStart
    /\ BothReported =>
          Reported(DryLog)[1] = Reported(RealLog)[1] + FailedRenders(RealLog)

\* after a run that wrote images and had a render fail, the same command with
\* --dry-run reported its count and left the files as they were
C5_Witness ==
    /\ BothReported
    /\ args.dry_run
    /\ fs # {}
    /\ fs = reports[1].fs
    /\ Reported(log)[1] > Reported(reports[1].log)[1]
    /\ Reported(reports[1].log)[1] > 0

===========================================================================
